---- MODULE Spec2Model ----
(***************************************************************************)
(* Model of the rtladsb Kismet data source                                 *)
(* (capture_sdr_rtladsb/KismetCaptureRtladsb/__init__.py): the ADS-B       *)
(* parsing functions, the ingestion thread __rtl_thread and the restart    *)
(* logic of run_rtladsb.                                                   *)
(*                                                                         *)
(* Python byte arrays are sequences of 0..255; At(data, i) is data[i] with *)
(* Python's 0-based index.  Python strings are sequences of one-character  *)
(* strings.  A dict is a function whose DOMAIN is its key set.             *)
(***************************************************************************)
EXTENDS Integers, Sequences, FiniteSets, TLC

\* ------------------------------------------------------------------------
\* Integer bit operations (Python ints are unbounded; all operands are >= 0)
\* ------------------------------------------------------------------------

RECURSIVE BitAnd(_, _)
BitAnd(a, b) ==
    IF a = 0 \/ b = 0 THEN 0
    ELSE (a % 2) * (b % 2) + 2 * BitAnd(a \div 2, b \div 2)

RECURSIVE BitOr(_, _)
BitOr(a, b) ==
    IF a = 0 THEN b
    ELSE IF b = 0 THEN a
    ELSE (IF a % 2 = 1 \/ b % 2 = 1 THEN 1 ELSE 0) + 2 * BitOr(a \div 2, b \div 2)

RECURSIVE BitXor(_, _)
BitXor(a, b) ==
    IF a = 0 THEN b
    ELSE IF b = 0 THEN a
    ELSE ((a + b) % 2) + 2 * BitXor(a \div 2, b \div 2)

Shl(a, n) == a * (2 ^ n)

Shr(a, n) == a \div (2 ^ n)

At(data, i) == data[i + 1]

\* ------------------------------------------------------------------------
\* ADSB parsing functions
\* ------------------------------------------------------------------------

modes_checksum_table ==
    << 3749354, 1874677, 15841150, 7920575, 12818395, 10367465,
       11592432, 5796216, 2898108, 1449054, 724527, 16416019,
       8569997, 12490818, 6245409, 13655060, 6827530, 3413765,
       15069574, 7534787, 13010533, 10271030, 5135515, 14210121,
       9670688, 4835344, 2417672, 1208836, 604418, 302209,
       16626756, 8313378, 4156689, 14699660, 7349830, 3674915,
       14939029, 9307086, 4653543, 14449399, 9553791, 11999675,
       10778329, 11387240, 5693620, 2846810, 1423405, 16066066,
       8033033, 12759936, 6379968, 3189984, 1594992, 797496,
       398748, 199374, 99687, 16726199, 8414815, 12568875,
       10493585, 11531596, 5765798, 2882899, 15336621, 9107538,
       4553769, 14500880, 7250440, 3625220, 1812610, 906305,
       16322596, 8161298, 4080649, 14735360, 7367680, 3683840,
       1841920, 920960, 460480, 230240, 115120, 57560,
       28780, 14390, 7195, 16774153, 0, 0,
       0, 0, 0, 0, 0, 0,
       0, 0, 0, 0, 0, 0,
       0, 0, 0, 0, 0, 0,
       0, 0, 0, 0 >>

\* One pass of the body of "for j in range(0, bits)" (lines 93-98).
crc_step(data, offset, j, crc) ==
    LET byte    == j \div 8
        bit     == j % 8
        bitmask == Shl(1, 7 - bit)
    IN  IF BitAnd(At(data, byte), bitmask) # 0
        THEN BitXor(crc, At(modes_checksum_table, j + offset))
        ELSE crc

\* The passes for j = lo, lo + 1, ..., hi - 1 in this order, starting from crc
\* (the range is halved, and the first half's result demanded before the second
\* half starts, only to keep the evaluation's nesting shallow).
RECURSIVE crc_loop(_, _, _, _, _)
crc_loop(data, offset, lo, hi, crc) ==
    IF hi <= lo THEN crc
    ELSE IF hi = lo + 1 THEN crc_step(data, offset, lo, crc)
    ELSE LET mid  == (lo + hi) \div 2
             half == crc_loop(data, offset, lo, mid, crc)
         IN  IF half >= 0 THEN crc_loop(data, offset, mid, hi, half) ELSE half

\* Mutant: the table is read from its start whatever the frame's length.
crc_offset_zero(bits) == bits - bits

\* Lines 87-90: offset = 0, and 112 - 56 if bits != 112.
crc_offset(bits) == IF bits # 112 THEN 112 - 56 ELSE 0

adsb_crc(data, bits) ==
    LET offset == crc_offset(bits)
    IN  BitAnd(crc_loop(data, offset, 0, bits, 0), 16777215)

adsb_len_by_type(type) ==
    IF type = 16 \/ type = 17 \/ type = 19 \/ type = 20 \/ type = 21
    THEN 112
    ELSE 56

adsb_msg_get_crc(data, bits) ==
    BitOr(BitOr(Shl(At(data, (bits \div 8) - 3), 16),
                Shl(At(data, (bits \div 8) - 2), 8)),
          At(data, (bits \div 8) - 1))

adsb_msg_get_type(data) == Shr(At(data, 0), 3)

\* Mutant: the slice starts one byte early (data[0:3]).
adsb_msg_get_icao_from0(data) == SubSeq(data, 1, 3)

adsb_msg_get_icao(data) == SubSeq(data, 2, 4)

adsb_msg_get_me_subme(data) == << Shr(At(data, 4), 3), BitAnd(At(data, 4), 7) >>

adsb_msg_get_ac13_altitude(data) ==
    LET m_bit == BitAnd(At(data, 3), Shl(1, 6))
        q_bit == BitAnd(At(data, 3), Shl(1, 4))
        n1 == Shl(BitAnd(At(data, 2), 31), 6)
        n2 == BitOr(n1, Shr(BitAnd(At(data, 3), 128), 2))
        n3 == BitOr(n2, Shr(BitAnd(At(data, 3), 32), 1))
        n4 == BitOr(n3, BitAnd(At(data, 3), 21))
    IN  IF m_bit = 0 /\ q_bit # 0 THEN n4 * 25 - 1000 ELSE 0

adsb_msg_get_ac12_altitude(data) ==
    LET q_bit == BitAnd(At(data, 5), 1)
        n1 == Shl(Shr(At(data, 5), 1), 4)
        n2 == BitOr(n1, Shr(BitAnd(At(data, 6), 240), 4))
    IN  IF q_bit # 0 THEN n2 * 25 - 1000 ELSE 0

ais_charset ==
    << "?", "A", "B", "C", "D", "E", "F", "G", "H", "I", "J", "K", "L", "M", "N", "O",
       "P", "Q", "R", "S", "T", "U", "V", "W", "X", "Y", "Z", "?", "?", "?", "?", "?",
       " ", "?", "?", "?", "?", "?", "?", "?", "?", "?", "?", "?", "?", "?", "?", "?",
       "0", "1", "2", "3", "4", "5", "6", "7", "8", "9", "?", "?", "?", "?", "?", "?" >>

\* str.strip() with no argument: whitespace is removed from both ends.
Whitespace == {" ", "\t", "\n", "\r"}

RECURSIVE lstrip(_)
lstrip(s) ==
    IF s # << >> /\ Head(s) \in Whitespace THEN lstrip(Tail(s)) ELSE s

RECURSIVE rstrip(_)
rstrip(s) ==
    IF s # << >> /\ s[Len(s)] \in Whitespace
    THEN rstrip(SubSeq(s, 1, Len(s) - 1))
    ELSE s

strip(s) == rstrip(lstrip(s))

\* Lines 200-209: the eight characters before strip().
flight_chars(data) ==
          << At(ais_charset, Shr(At(data, 5), 2)),
             At(ais_charset, BitOr(Shl(BitAnd(At(data, 5), 3), 4), Shr(At(data, 6), 4))),
             At(ais_charset, BitOr(Shl(BitAnd(At(data, 6), 15), 2), Shr(At(data, 7), 6))),
             At(ais_charset, BitAnd(At(data, 7), 63)),
             At(ais_charset, Shr(At(data, 8), 2)),
             At(ais_charset, BitOr(Shl(BitAnd(At(data, 8), 3), 4), Shr(At(data, 9), 4))),
             At(ais_charset, BitOr(Shl(BitAnd(At(data, 9), 15), 2), Shr(At(data, 10), 6))),
             At(ais_charset, BitAnd(At(data, 10), 63)) >>

\* Mutant: only the trailing spaces are removed (rstrip for strip).
adsb_msg_get_flight_rstrip(data) == rstrip(flight_chars(data))

adsb_msg_get_flight(data) == strip(flight_chars(data))

adsb_msg_get_airborne_position(data) ==
    LET paireven == BitAnd(At(data, 6), Shl(1, 2)) # 0
        lat == BitOr(BitOr(Shl(BitAnd(At(data, 6), 3), 15), Shl(At(data, 7), 7)),
                     Shr(At(data, 8), 1))
        lon == BitOr(BitOr(Shl(BitAnd(At(data, 8), 1), 16), Shl(At(data, 9), 8)),
                     At(data, 10))
    IN  << paireven, lat, lon >>

\* math.sqrt and math.atan2 produce floats; the float is kept symbolically as
\* the exact integer arguments it is computed from.
adsb_msg_get_airborne_velocity(data) ==
    LET ew_velocity == BitOr(Shl(BitAnd(At(data, 5), 3), 8), At(data, 6))
        ns_velocity == BitOr(Shl(BitAnd(At(data, 7), 127), 3),
                             Shr(BitAnd(At(data, 8), 224), 5))
    IN  [sqrt_of |-> ns_velocity * ns_velocity + ew_velocity * ew_velocity]

adsb_msg_get_airborne_heading(data) ==
    LET ew_dir == Shr(BitAnd(At(data, 5), 4), 2)
        ew_velocity == BitOr(Shl(BitAnd(At(data, 5), 3), 8), At(data, 6))
        ns_dir == Shr(BitAnd(At(data, 7), 128), 7)
        ns_velocity == BitOr(Shl(BitAnd(At(data, 7), 127), 3),
                             Shr(BitAnd(At(data, 8), 224), 5))
        ewv == IF ew_dir # 0 THEN ew_velocity * (-1) ELSE ew_velocity
        nsv == IF ns_dir # 0 THEN ns_velocity * (-1) ELSE ns_velocity
    IN  [atan2_deg_of |-> << ewv, nsv >>]

\* ------------------------------------------------------------------------
\* Text layer: str slicing, bytearray.fromhex, bytes.hex
\* ------------------------------------------------------------------------

HexLower == << "0", "1", "2", "3", "4", "5", "6", "7",
               "8", "9", "a", "b", "c", "d", "e", "f" >>

HexUpper == << "0", "1", "2", "3", "4", "5", "6", "7",
               "8", "9", "A", "B", "C", "D", "E", "F" >>

IsHexDigit(c) == \E i \in 1..16 : HexLower[i] = c \/ HexUpper[i] = c

HexValue(c) == (CHOOSE i \in 1..16 : HexLower[i] = c \/ HexUpper[i] = c) - 1

\* Mutant: a leading '*' and a trailing ';' are dropped where present.
slice_sentinels(s) ==
    LET a == IF s # << >> /\ Head(s) = "*" THEN Tail(s) ELSE s
    IN  IF a # << >> /\ a[Len(a)] = ";" THEN SubSeq(a, 1, Len(a) - 1) ELSE a

\* s[1:-1]: the first and the last character are dropped, whatever they are.
slice_1_m1(s) == SubSeq(s, 2, Len(s) - 1)

\* bytearray.fromhex(s): whitespace between bytes is skipped, every byte is two
\* adjacent hex digits, anything else raises ValueError (ok = FALSE).
RECURSIVE fromhex(_)
fromhex(s) ==
    LET t == lstrip(s)
    IN  IF t = << >> THEN [ok |-> TRUE, bytes |-> << >>]
        ELSE IF Len(t) >= 2 /\ IsHexDigit(t[1]) /\ IsHexDigit(t[2])
        THEN LET rest == fromhex(SubSeq(t, 3, Len(t)))
             IN  [ok |-> rest.ok,
                  bytes |-> << HexValue(t[1]) * 16 + HexValue(t[2]) >> \o rest.bytes]
        ELSE [ok |-> FALSE, bytes |-> << >>]

\* bytes.hex(): two lower-case digits per byte.
RECURSIVE hex(_)
hex(data) ==
    IF data = << >> THEN << >>
    ELSE << HexLower[(Head(data) \div 16) + 1], HexLower[(Head(data) % 16) + 1] >>
         \o hex(Tail(data))

\* ------------------------------------------------------------------------
\* The body of the "for line in self.rtl_exec.stdout" loop
\* ------------------------------------------------------------------------

\* output[k] = v
Put(d, k, v) == (k :> v) @@ d

EmptyDict == [k \in {} |-> 0]

\* self.airplanes: the rows of the bundled aircraft table (icao, regid, mdl,
\* type, operator); one row stands for the table.
airplanes ==
    << << << "4", "8", "4", "0", "d", "6" >>, "PH-BXA", "B738", "L2J", "KLM" >> >>

RECURSIVE lookup_airplanes(_, _, _)
lookup_airplanes(rows, msgicao, output) ==
    IF rows = << >> THEN output
    ELSE LET row == Head(rows)
         IN  lookup_airplanes(Tail(rows), msgicao,
                 IF msgicao = row[1]
                 THEN Put(Put(Put(Put(output, "regid", row[2]), "mdl", row[3]),
                              "type", row[4]), "operator", row[5])
                 ELSE output)

\* Mutant: the lower bound on msgsubme is missing.
is_position_no_lower(msgme, msgsubme) == msgme = 19 /\ msgsubme <= 4

\* Line 479: the frame carries position, altitude and maybe velocity.
is_position(msgme, msgsubme) == msgme = 19 /\ (msgsubme >= 1 /\ msgsubme <= 4)

\* Lines 472-498: the fields added for a frame that passed the CRC check.
rtl_fields(msg, msgtype, output) ==
    IF msgtype = 17
    THEN LET me       == adsb_msg_get_me_subme(msg)
             msgme    == me[1]
             msgsubme == me[2]
             o1 == IF msgme >= 1 /\ msgme <= 4
                   THEN Put(output, "callsign", adsb_msg_get_flight(msg))
                   ELSE output
             pos == adsb_msg_get_airborne_position(msg)
             o2 == Put(Put(Put(o1, "coordpair_even", pos[1]), "raw_lat", pos[2]),
                       "raw_lon", pos[3])
             o3 == Put(o2, "altitude", adsb_msg_get_ac12_altitude(msg))
             o4 == IF msgsubme = 1 \/ msgsubme = 2
                   THEN Put(Put(o3, "speed", adsb_msg_get_airborne_velocity(msg)),
                            "heading", adsb_msg_get_airborne_heading(msg))
                   ELSE o3
         IN  IF is_position(msgme, msgsubme)
             THEN o4
             ELSE IF msgtype = 0 \/ msgtype = 4 \/ msgtype = 16 \/ msgtype = 20
             THEN Put(o1, "altitude", adsb_msg_get_ac13_altitude(msg))
             ELSE o1
    ELSE output

\* Line 472 guards lines 473-507: json.dumps, handle_json and
\* "seen_any_valid = True" are inside "if msgtype == 17".
rtl_emits(msgtype) == msgtype = 17

\* Mutant: the CRC filter lets every frame through.
rtl_crc_ok_always(msgcrc, msgcrc2) == TRUE

\* Line 457: the CRC filter.
rtl_crc_ok(msgcrc, msgcrc2) == ~(msgcrc # msgcrc2)

\* One pass of lines 447-498 on one line of the decoder's stdout.  stage says
\* how far the pass got before an exception (if any):
\*   0  fromhex raised ValueError (line 447), nothing assigned
\*   1  msg and output assigned, adsb_msg_get_type raised IndexError (451)
\*   2  msgtype, msgbits assigned, adsb_msg_get_crc raised IndexError (453)
\*   3  msgcrc, msgcrc2 assigned; no exception up to line 498
rtl_iteration(line) ==
    LET parsed == fromhex(slice_1_m1(strip(line)))
        msg == parsed.bytes
        msgtype == adsb_msg_get_type(msg)
        msgbits == adsb_len_by_type(msgtype)
        msgcrc == adsb_msg_get_crc(msg, msgbits)
        msgcrc2 == adsb_crc(msg, msgbits)
        msgicao == hex(adsb_msg_get_icao(msg))
        out1 == lookup_airplanes(airplanes, msgicao, Put(EmptyDict, "icao", msgicao))
    IN  IF ~parsed.ok
        THEN [stage |-> 0, raised |-> "ValueError"]
        ELSE IF Len(msg) < 1
        THEN [stage |-> 1, raised |-> "IndexError", msg |-> msg, output |-> EmptyDict]
        ELSE IF Len(msg) < (msgbits \div 8)
        THEN [stage |-> 2, raised |-> "IndexError", msg |-> msg, output |-> EmptyDict,
              msgtype |-> msgtype, msgbits |-> msgbits]
        ELSE IF ~rtl_crc_ok(msgcrc, msgcrc2)
        THEN [stage |-> 3, raised |-> "none", msg |-> msg, output |-> EmptyDict,
              msgtype |-> msgtype, msgbits |-> msgbits,
              msgcrc |-> msgcrc, msgcrc2 |-> msgcrc2, emit |-> FALSE]
        ELSE [stage |-> 3, raised |-> "none", msg |-> msg,
              output |-> rtl_fields(msg, msgtype, out1),
              msgtype |-> msgtype, msgbits |-> msgbits,
              msgcrc |-> msgcrc, msgcrc2 |-> msgcrc2, emit |-> rtl_emits(msgtype)]

\* ------------------------------------------------------------------------
\* Input: the lines the decoder process (rtl_adsb) writes to its stdout
\* ------------------------------------------------------------------------

\* The transmitter's parity: the remainder of payload * x^24 by the Mode S
\* generator polynomial 0x1FFF409, by bitwise long division (no table).
parity_step(payload, j, reg) ==
    LET bit  == (At(payload, j \div 8) \div (2 ^ (7 - (j % 8)))) % 2
        top  == ((reg \div (2 ^ 23)) + bit) % 2
        reg1 == (reg * 2) % (2 ^ 24)
    IN  IF top = 1 THEN BitXor(reg1, 16774153) ELSE reg1

RECURSIVE parity_loop(_, _, _, _)
parity_loop(payload, lo, hi, reg) ==
    IF hi <= lo THEN reg
    ELSE IF hi = lo + 1 THEN parity_step(payload, lo, reg)
    ELSE LET mid  == (lo + hi) \div 2
             half == parity_loop(payload, lo, mid, reg)
         IN  IF half >= 0 THEN parity_loop(payload, mid, hi, half) ELSE half

ModeSParity(payload) == parity_loop(payload, 0, 8 * Len(payload), 0)

\* A frame as a conformant encoder sends it: payload followed by its parity.
Frame(payload) ==
    LET c == ModeSParity(payload)
    IN  payload \o << c \div 65536, (c \div 256) % 256, c % 256 >>

\* The frame with its last byte changed: a reception error.
Garbled(frame) ==
    [i \in 1..Len(frame) |->
        IF i = Len(frame) THEN (frame[i] + 1) % 256 ELSE frame[i]]

\* rtl_adsb prints a frame as '*', its hex digits, ';' and a newline.
Line(frame) == << "*" >> \o hex(frame) \o << ";", "\n" >>

\* "*8D4840D6202CC371C32CE0576098;"
KnownLine ==
    << "*", "8", "D", "4", "8", "4", "0", "D", "6", "2", "0", "2", "C", "C", "3",
       "7", "1", "C", "3", "2", "C", "E", "0", "5", "7", "6", "0", "9", "8", ";",
       "\n" >>

\* Values of byte 4 (metype << 3 | mesub) of the type-17 frames fed in:
\* (1,0) (5,0) (11,0) (19,0) (19,1) (19,2) (19,3) (19,4) (19,5) (0,0)
MeBytes == {8, 40, 88, 152, 153, 154, 155, 156, 157, 0}

Df17(me) == Frame(<< 141, 161, 178, 195, me, 195, 130, 23, 53, 154, 76 >>)

\* Message types fed in besides 17; 16, 20 and 21 are 112 bits long.
OtherTypes == {0, 4, 5, 11, 16, 20, 21}

DfOther(type) ==
    IF adsb_len_by_type(type) = 112
    THEN Frame(<< type * 8, 72, 1, 148, 32, 44, 195, 113, 195, 44, 224 >>)
    ELSE Frame(<< type * 8, 72, 1, 148 >>)

ValidLines == {KnownLine} \cup {Line(Df17(me)) : me \in MeBytes}
                          \cup {Line(DfOther(type)) : type \in OtherTypes}

BadCrcLines == {Line(Garbled(Df17(153))), Line(Garbled(DfOther(4)))}

\* Non-hex characters; an odd number of hex digits; an empty line; fewer bytes
\* than a type-17 frame has.
MalformedLines ==
    { << "*", "z", "z", ";", "\n" >>,
      << "*", "8", "d", "4", ";", "\n" >>,
      << "\n" >>,
      Line(<< 141, 72, 64 >>) }

\* A valid frame's hex digits without the '*' and ';' around them.
BareLines == { hex(Df17(153)) \o << "\n" >> }

Lines == ValidLines \cup BadCrcLines \cup MalformedLines \cup BareLines

\* The lines of the runs that exercise the restart logic.
RestartLines == { KnownLine, Line(Garbled(Df17(153))) }

\* rtl_iteration on every line that can arrive, evaluated once.
IterationOf == [line \in Lines |-> rtl_iteration(line)]

\* ------------------------------------------------------------------------
\* State
\* ------------------------------------------------------------------------

\* Lines one ingestion thread reads before its decoder process ends.
MaxLines == 2

\* Calls of run_rtladsb in the runs that exercise the restart logic.
MaxCalls == 2

VARIABLES
    rtl_thread,       \* self.rtl_thread: 0 is None, n the n-th thread started
    rtl_exec,         \* self.rtl_exec: 0 is None, n the n-th process of procs
    rtl_reconfigure,  \* self.rtl_reconfigure
    procs,            \* the decoder processes: "running", "exited" (on its own)
                      \* or "killed"
    pc,               \* where the ingestion thread is
    exc,              \* the exception the thread's try block ended with
    seen_any_valid,   \* local of __rtl_thread
    loc,              \* locals of the loop body, as the last pass left them
    nread,            \* lines the thread has read
    cpc,              \* where the caller of run_rtladsb is
    calls,            \* calls of run_rtladsb made
    call_result,      \* how the last call of run_rtladsb ended
    records,          \* what was handed to handle_json, in order: json is the
                      \* record; thread, n (the line's number) and msg (the
                      \* frame) say where it came from
    reports,          \* kismet.send_datasource_error_report calls, in order
    spindown,         \* kismet.spindown() was called
    fn_arg,           \* the argument a function is applied to on its own
    fn_ret,           \* << >>, or << its result >>
    mqtt_mode,        \* self.mqtt_mode
    opts,             \* self.opts: the entries 'device' and 'channel'
    mq,               \* self.mq: 0 is no MQTT client, 1 a client whose thread runs
    ret               \* local of datasource_opensource while run_rtladsb runs:
                      \* << >>, or << ret >>

vars == << rtl_thread, rtl_exec, rtl_reconfigure, procs, pc, exc, seen_any_valid,
           loc, nread, cpc, calls, call_result, records, reports, spindown,
           fn_arg, fn_ret, mqtt_mode, opts, mq, ret >>

fn_vars == << fn_arg, fn_ret >>

src_vars == << mqtt_mode, opts, mq, ret >>

obj_vars == << rtl_thread, rtl_exec, rtl_reconfigure >>

thread_vars == << pc, exc, seen_any_valid, loc, nread >>

caller_vars == << cpc, calls, call_result >>

out_vars == << records, reports, spindown >>

\* The loop body's locals before the first pass (nothing bound yet).
NoLocals ==
    [stage |-> -1, raised |-> "none", line |-> << >>, msg |-> << >>,
     output |-> EmptyDict, msgtype |-> -1, msgbits |-> -1,
     msgcrc |-> -1, msgcrc2 |-> -1, emit |-> FALSE]

\* The locals after a pass over line that got as far as `it` says; what the
\* pass did not assign keeps its previous value.
Assign(old, line, it) ==
    [stage   |-> it.stage,
     raised  |-> it.raised,
     line    |-> line,
     msg     |-> IF it.stage >= 1 THEN it.msg ELSE old.msg,
     output  |-> IF it.stage >= 1 THEN it.output ELSE old.output,
     msgtype |-> IF it.stage >= 2 THEN it.msgtype ELSE old.msgtype,
     msgbits |-> IF it.stage >= 2 THEN it.msgbits ELSE old.msgbits,
     msgcrc  |-> IF it.stage >= 3 THEN it.msgcrc ELSE old.msgcrc,
     msgcrc2 |-> IF it.stage >= 3 THEN it.msgcrc2 ELSE old.msgcrc2,
     emit    |-> IF it.stage >= 3 THEN it.emit ELSE FALSE]

\* The object after __init__ (lines 292-298), no thread started.
Idle ==
    /\ rtl_thread = 0
    /\ rtl_exec = 0
    /\ rtl_reconfigure = FALSE
    /\ procs = << >>
    /\ pc = "none"
    /\ exc = "none"
    /\ seen_any_valid = FALSE
    /\ loc = NoLocals
    /\ nread = 0
    /\ cpc = "idle"
    /\ calls = 0
    /\ call_result = "none"
    /\ records = << >>
    /\ reports = << >>
    /\ spindown = FALSE
    /\ mqtt_mode = FALSE
    /\ opts = [device |-> "None", channel |-> "1090.000MHz"]
    /\ mq = 0
    /\ ret = << >>

Init ==
    /\ Idle
    /\ fn_arg = << >>
    /\ fn_ret = << >>

\* ------------------------------------------------------------------------
\* __rtl_thread
\* ------------------------------------------------------------------------

Report(kind) == [thread |-> rtl_thread, kind |-> kind, exc |-> exc]

\* Line 441: subprocess.Popen; OSError when the binary cannot be started.
Popen ==
    /\ pc = "l441"
    /\ \E ok \in BOOLEAN :
          IF ok
          THEN /\ procs' = Append(procs, "running")
               /\ rtl_exec' = Len(procs) + 1
               /\ pc' = "loop"
               /\ exc' = exc
          ELSE /\ procs' = procs
               /\ rtl_exec' = rtl_exec
               /\ pc' = "l514"
               /\ exc' = "OSError"
    /\ UNCHANGED << rtl_thread, rtl_reconfigure, seen_any_valid, loc, nread >>
    /\ UNCHANGED caller_vars
    /\ UNCHANGED out_vars
    /\ UNCHANGED fn_vars
    /\ UNCHANGED src_vars

\* handle_json (lines 778-802): the report is sent, or sending raises, an
\* error report is sent instead and False is returned.
handle_json(ok) ==
    IF ok
    THEN reports' = reports
    ELSE reports' = Append(reports, Report("handle_json"))

\* Mutant: the record is put ahead of the ones handed over before.
Emit_front(recs, r) == << r >> \o recs

\* Line 504: the record is handed to handle_json, after all earlier ones.
Emit(recs, r) == Append(recs, r)

\* Lines 446-507: one line of the process's stdout goes through the loop body.
ReadLine(From) ==
    /\ pc = "loop"
    /\ procs[rtl_exec] = "running"
    /\ nread < MaxLines
    /\ \E line \in From :
          LET it == IterationOf[line]
          IN  /\ loc' = Assign(loc, line, it)
              /\ nread' = nread + 1
              /\ IF it.raised # "none"
                 THEN /\ exc' = it.raised
                      /\ pc' = "l514"
                      /\ UNCHANGED << seen_any_valid, records, reports >>
                 ELSE IF ~it.emit
                 THEN UNCHANGED << exc, pc, seen_any_valid, records, reports >>
                 ELSE \E ok \in BOOLEAN :
                         /\ records' = Emit(records,
                                [thread |-> rtl_thread, n |-> nread + 1,
                                 msg |-> it.msg, json |-> it.output])
                         /\ handle_json(ok)
                         /\ IF ok
                            THEN /\ seen_any_valid' = TRUE
                                 /\ UNCHANGED << exc, pc >>
                            ELSE /\ exc' = "could not process response"
                                 /\ pc' = "l514"
                                 /\ seen_any_valid' = seen_any_valid
    /\ UNCHANGED obj_vars
    /\ UNCHANGED << procs, spindown >>
    /\ UNCHANGED caller_vars
    /\ UNCHANGED fn_vars
    /\ UNCHANGED src_vars

\* Lines 443-444 and 509: stdout is at its end, poll() finds the process gone,
\* the while loop ends and RuntimeError('rtl_adsb process exited') is raised.
ObserveExit ==
    /\ pc = "loop"
    /\ procs[rtl_exec] # "running"
    /\ exc' = "rtl_adsb process exited"
    /\ pc' = "l514"
    /\ UNCHANGED obj_vars
    /\ UNCHANGED << procs, seen_any_valid, loc, nread >>
    /\ UNCHANGED caller_vars
    /\ UNCHANGED out_vars
    /\ UNCHANGED fn_vars
    /\ UNCHANGED src_vars

\* Lines 511-515: except Exception.
Except ==
    /\ pc = "l514"
    /\ IF ~rtl_reconfigure
       THEN reports' = Append(reports, Report("unable"))
       ELSE reports' = reports
    /\ pc' = "l517"
    /\ UNCHANGED obj_vars
    /\ UNCHANGED << procs, exc, seen_any_valid, loc, nread >>
    /\ UNCHANGED caller_vars
    /\ UNCHANGED << records, spindown >>
    /\ UNCHANGED fn_vars
    /\ UNCHANGED src_vars

\* Mutant: the finally block does not look at seen_any_valid.
Finally_ignores_seen ==
    /\ pc = "l517"
    /\ IF ~rtl_reconfigure
       THEN /\ reports' = Append(reports, Report("no_valid"))
            /\ spindown' = TRUE
       ELSE UNCHANGED << reports, spindown >>
    /\ pc' = "l521"
    /\ UNCHANGED obj_vars
    /\ UNCHANGED << procs, exc, seen_any_valid, loc, nread >>
    /\ UNCHANGED caller_vars
    /\ UNCHANGED records
    /\ UNCHANGED fn_vars
    /\ UNCHANGED src_vars

\* Lines 516-519: finally.
Finally ==
    /\ pc = "l517"
    /\ IF ~seen_any_valid /\ ~rtl_reconfigure
       THEN /\ reports' = Append(reports, Report("no_valid"))
            /\ spindown' = TRUE
       ELSE UNCHANGED << reports, spindown >>
    /\ pc' = "l521"
    /\ UNCHANGED obj_vars
    /\ UNCHANGED << procs, exc, seen_any_valid, loc, nread >>
    /\ UNCHANGED caller_vars
    /\ UNCHANGED records
    /\ UNCHANGED fn_vars
    /\ UNCHANGED src_vars

\* Line 521: self.rtl_exec.kill(); AttributeError when rtl_exec is None, and
\* then the thread ends with that exception.
ThreadKill ==
    /\ pc = "l521"
    /\ IF rtl_exec = 0
       THEN /\ pc' = "died"
            /\ procs' = procs
       ELSE /\ pc' = "done"
            /\ procs' = [procs EXCEPT
                           ![rtl_exec] = IF @ = "running" THEN "killed" ELSE @]
    /\ UNCHANGED obj_vars
    /\ UNCHANGED << exc, seen_any_valid, loc, nread >>
    /\ UNCHANGED caller_vars
    /\ UNCHANGED out_vars
    /\ UNCHANGED fn_vars
    /\ UNCHANGED src_vars

\* The decoder process ends on its own (device unplugged, crash).
ProcExit ==
    /\ rtl_exec # 0
    /\ procs[rtl_exec] = "running"
    /\ procs' = [procs EXCEPT ![rtl_exec] = "exited"]
    /\ UNCHANGED obj_vars
    /\ UNCHANGED thread_vars
    /\ UNCHANGED caller_vars
    /\ UNCHANGED out_vars
    /\ UNCHANGED fn_vars
    /\ UNCHANGED src_vars

\* ------------------------------------------------------------------------
\* run_rtladsb
\* ------------------------------------------------------------------------

\* datasource_opensource calls run_rtladsb (line 769).
Call(max) ==
    /\ cpc = "idle"
    /\ calls < max
    /\ calls' = calls + 1
    /\ cpc' = "l525"
    /\ call_result' = "running"
    /\ UNCHANGED obj_vars
    /\ UNCHANGED procs
    /\ UNCHANGED thread_vars
    /\ UNCHANGED out_vars
    /\ UNCHANGED fn_vars
    /\ UNCHANGED src_vars

\* Line 525: if self.rtl_thread != None
Run525 ==
    /\ cpc = "l525"
    /\ cpc' = IF rtl_thread # 0 THEN "l527" ELSE "l535"
    /\ UNCHANGED << calls, call_result >>
    /\ UNCHANGED obj_vars
    /\ UNCHANGED procs
    /\ UNCHANGED thread_vars
    /\ UNCHANGED out_vars
    /\ UNCHANGED fn_vars
    /\ UNCHANGED src_vars

\* Line 527: if self.rtl_exec != None
Run527 ==
    /\ cpc = "l527"
    /\ cpc' = IF rtl_exec # 0 THEN "l528" ELSE "l532"
    /\ UNCHANGED << calls, call_result >>
    /\ UNCHANGED obj_vars
    /\ UNCHANGED procs
    /\ UNCHANGED thread_vars
    /\ UNCHANGED out_vars
    /\ UNCHANGED fn_vars
    /\ UNCHANGED src_vars

\* Line 528: self.rtl_reconfigure = True
Run528 ==
    /\ cpc = "l528"
    /\ rtl_reconfigure' = TRUE
    /\ cpc' = "l529"
    /\ UNCHANGED << calls, call_result >>
    /\ UNCHANGED << rtl_thread, rtl_exec >>
    /\ UNCHANGED procs
    /\ UNCHANGED thread_vars
    /\ UNCHANGED out_vars
    /\ UNCHANGED fn_vars
    /\ UNCHANGED src_vars

\* Line 529: self.rtl_exec.kill(9).  Popen.kill() takes no argument: the call
\* raises TypeError before any signal is sent, and run_rtladsb ends with it.
Run529 ==
    /\ cpc = "l529"
    /\ cpc' = "idle"
    /\ call_result' = "TypeError"
    /\ UNCHANGED calls
    /\ UNCHANGED obj_vars
    /\ UNCHANGED procs
    /\ UNCHANGED thread_vars
    /\ UNCHANGED out_vars
    /\ UNCHANGED fn_vars
    /\ UNCHANGED src_vars

\* Line 532: self.rtl_thread.join() returns once the thread has ended.
Run532 ==
    /\ cpc = "l532"
    /\ pc \in {"done", "died"}
    /\ cpc' = "l533"
    /\ UNCHANGED << calls, call_result >>
    /\ UNCHANGED obj_vars
    /\ UNCHANGED procs
    /\ UNCHANGED thread_vars
    /\ UNCHANGED out_vars
    /\ UNCHANGED fn_vars
    /\ UNCHANGED src_vars

\* Line 533: self.rtl_reconfigure = False
Run533 ==
    /\ cpc = "l533"
    /\ rtl_reconfigure' = FALSE
    /\ cpc' = "l535"
    /\ UNCHANGED << calls, call_result >>
    /\ UNCHANGED << rtl_thread, rtl_exec >>
    /\ UNCHANGED procs
    /\ UNCHANGED thread_vars
    /\ UNCHANGED out_vars
    /\ UNCHANGED fn_vars
    /\ UNCHANGED src_vars

\* Lines 535-537: a new thread is created and started; it begins __rtl_thread
\* with seen_any_valid = False (line 436).
Run535 ==
    /\ cpc = "l535"
    /\ rtl_thread' = rtl_thread + 1
    /\ pc' = "l441"
    /\ exc' = "none"
    /\ seen_any_valid' = FALSE
    /\ loc' = NoLocals
    /\ nread' = 0
    /\ cpc' = "idle"
    /\ call_result' = "returned"
    /\ UNCHANGED calls
    /\ UNCHANGED << rtl_exec, rtl_reconfigure >>
    /\ UNCHANGED procs
    /\ UNCHANGED out_vars
    /\ UNCHANGED fn_vars
    /\ UNCHANGED src_vars

\* ------------------------------------------------------------------------
\* Specifications
\* ------------------------------------------------------------------------

\* One source is opened once: one thread ingests lines drawn from Lines.
Next ==
    \/ Call(1)
    \/ Run525
    \/ Run535
    \/ Popen
    \/ ReadLine(Lines)
    \/ ObserveExit
    \/ Except
    \/ Finally
    \/ ThreadKill
    \/ ProcExit

Spec == Init /\ [][Next]_vars

\* The source is opened again while it runs: run_rtladsb is called up to
\* MaxCalls times, concurrently with the ingestion thread.
NextRestart ==
    \/ Call(MaxCalls)
    \/ Run525
    \/ Run527
    \/ Run528
    \/ Run529
    \/ Run532
    \/ Run533
    \/ Run535
    \/ Popen
    \/ ReadLine(RestartLines)
    \/ ObserveExit
    \/ Except
    \/ Finally
    \/ ThreadKill
    \/ ProcExit

SpecRestart == Init /\ [][NextRestart]_vars

\* ------------------------------------------------------------------------
\* The parsing functions applied on their own
\* ------------------------------------------------------------------------

\* adsb_msg_get_ac13_altitude on every value of bytes 2 and 3.
InitAlt ==
    /\ Idle
    /\ fn_arg \in {<< 0, 0, b2, b3 >> : b2 \in 0..255, b3 \in 0..255}
    /\ fn_ret = << >>

ApplyAlt ==
    /\ fn_ret = << >>
    /\ fn_ret' = << adsb_msg_get_ac13_altitude(fn_arg) >>
    /\ UNCHANGED fn_arg
    /\ UNCHANGED << obj_vars, procs, thread_vars, caller_vars, out_vars >>
    /\ UNCHANGED src_vars

SpecAlt == InitAlt /\ [][ApplyAlt]_vars

\* 6-bit codes the callsign fields are drawn from: A, B, C, space, 5.
FlightCodes == {1, 2, 3, 32, 53}

\* The six bytes that carry eight 6-bit codes, first code in the top bits.
PackCodes(c) ==
    << c[1] * 4 + (c[2] \div 16),
       (c[2] % 16) * 16 + (c[3] \div 4),
       (c[3] % 4) * 64 + c[4],
       c[5] * 4 + (c[6] \div 16),
       (c[6] % 16) * 16 + (c[7] \div 4),
       (c[7] % 4) * 64 + c[8] >>

\* adsb_msg_get_flight on type-17 identification frames.
InitFlight ==
    /\ Idle
    /\ fn_arg \in {<< 141, 72, 64, 214, 32 >> \o PackCodes(c) \o << 0, 0, 0 >> :
                      c \in [1..8 -> FlightCodes]}
    /\ fn_ret = << >>

ApplyFlight ==
    /\ fn_ret = << >>
    /\ fn_ret' = << adsb_msg_get_flight(fn_arg) >>
    /\ UNCHANGED fn_arg
    /\ UNCHANGED << obj_vars, procs, thread_vars, caller_vars, out_vars >>
    /\ UNCHANGED src_vars

SpecFlight == InitFlight /\ [][ApplyFlight]_vars

\* Payloads of n bytes with exactly one bit set; bit 0 is the first bit sent.
OneBit(n) ==
    { [i \in 1..n |-> IF i = (b \div 8) + 1 THEN 2 ^ (7 - (b % 8)) ELSE 0] :
        b \in 0..(8 * n - 1) }

\* Payloads (the frame without its last three bytes) of 112-bit and of 56-bit
\* frames: every single bit, no bit, every bit, and two of mixed bits.
CrcPayloads ==
    OneBit(11) \cup OneBit(4)
    \cup { [i \in 1..11 |-> 0], [i \in 1..11 |-> 255], [i \in 1..4 |-> 0],
           [i \in 1..4 |-> 255],
           << 141, 72, 64, 214, 32, 44, 195, 113, 195, 44, 224 >>,
           << 40, 72, 1, 148 >> }

\* Values of the last three bytes, where the sender puts its checksum.
CrcTrailers == { << 0, 0, 0 >>, << 255, 255, 255 >>, << 87, 96, 152 >>, << 1, 2, 4 >> }

\* adsb_crc on frames of 56 and of 112 bits.
InitCrc ==
    /\ Idle
    /\ fn_arg \in {payload \o t : payload \in CrcPayloads, t \in CrcTrailers}
    /\ fn_ret = << >>

ApplyCrc ==
    /\ fn_ret = << >>
    /\ fn_ret' = << adsb_crc(fn_arg, 8 * Len(fn_arg)) >>
    /\ UNCHANGED fn_arg
    /\ UNCHANGED << obj_vars, procs, thread_vars, caller_vars, out_vars >>
    /\ UNCHANGED src_vars

SpecCrc == InitCrc /\ [][ApplyCrc]_vars

\* ------------------------------------------------------------------------
\* datasource_opensource
\* ------------------------------------------------------------------------

IsDigit(c) == c \in {"0", "1", "2", "3", "4", "5", "6", "7", "8", "9"}

\* int(s) for the selectors fed in: decimal digits give their value, anything
\* else (letters, the empty string) raises ValueError (ok = FALSE).
RECURSIVE int_of(_)
int_of(s) ==
    IF s = << >> THEN [ok |-> FALSE, val |-> 0]
    ELSE IF ~IsDigit(s[Len(s)]) THEN [ok |-> FALSE, val |-> 0]
    ELSE IF Len(s) = 1 THEN [ok |-> TRUE, val |-> HexValue(s[1])]
    ELSE LET front == int_of(SubSeq(s, 1, Len(s) - 1))
         IN  [ok |-> front.ok, val |-> front.val * 10 + HexValue(s[Len(s)])]

\* s[:n] and s[n:]
slice_to(s, n) == SubSeq(s, 1, IF n < Len(s) THEN n ELSE Len(s))

slice_from(s, n) == SubSeq(s, n + 1, Len(s))

\* "rtladsb-"
rtladsb_prefix == << "r", "t", "l", "a", "d", "s", "b", "-" >>

\* "mqtt"
mqtt_selector == << "m", "q", "t", "t" >>

\* check_rtl_bin (lines 413-422): rtl_adsb --help ends normally or with a
\* non-zero status (CalledProcessError): True; it cannot be started (OSError):
\* False.
check_rtl_bin(bin) ==
    IF bin = "CalledProcessError" THEN TRUE
    ELSE IF bin = "OSError" THEN FALSE
    ELSE TRUE

\* rtl_get_index_by_serial: the device's index, or librtlsdr's negative code.
rtl_get_index_by_serial(env, serial) ==
    IF env.device_count > 0 /\ serial = env.serial THEN 0
    ELSE IF env.device_count = 0 THEN -2 ELSE -3

\* A value datasource_opensource returns: a dictionary, or None.
RetDict(d) == [kind |-> "dict", dict |-> d]

RetNone == [kind |-> "None", dict |-> EmptyDict]

\* ret with success = False and a message (the early returns).
Failure(message) ==
    RetDict(Put(Put(EmptyDict, "success", FALSE), "message", message))

\* ret['hardware'], ret['uuid'] (lines 701-705, 748-752).
Describe(hardware, options, uuid) ==
    Put(Put(EmptyDict, "hardware", hardware), "uuid",
        IF "uuid" \in options THEN "options.uuid" ELSE uuid)

\* Lines 680-769 up to the call of run_mqtt or run_rtladsb.  at says where the
\* function is then: "return" (value is what it returns), "run_mqtt" or
\* "run_rtladsb" (value is ret so far); mqtt_mode and opts are the object's
\* fields as it leaves them.
datasource_opensource(source, options, env, old_mode, old_opts) ==
    LET devselector == slice_from(source, 8)
        asint       == int_of(devselector)
        found_interface == asint.ok /\ ~(asint.val >= env.device_count)
        intnum      == IF found_interface THEN asint.val
                       ELSE rtl_get_index_by_serial(env, devselector)
        new_opts    == [device  |-> intnum,
                        channel |-> IF "channel" \in options
                                    THEN "options.channel"
                                    ELSE old_opts.channel]
        stay(value) == [at |-> "return", value |-> value,
                        mqtt_mode |-> old_mode, opts |-> old_opts]
    IN  IF ~(slice_to(source, 8) = rtladsb_prefix)
        THEN stay(Failure("Could not parse which rtlsdr device to use"))
        ELSE IF devselector = mqtt_selector
        THEN IF ~("mqtt" \in options)
             THEN stay(Failure("MQTT requested, but no mqtt=xyz option in source definition"))
             ELSE IF ~env.has_mqtt
             THEN stay(Failure("MQTT requested, but the python paho mqtt package is not installed"))
             ELSE [at |-> "run_mqtt",
                   value |-> RetDict(Put(Describe("MQTT", options, "mqtt_uuid"),
                                         "success", TRUE)),
                   mqtt_mode |-> TRUE, opts |-> old_opts]
        ELSE IF ~env.have_librtl
        THEN stay(Failure("could not find librtlsdr, unable to configure rtlsdr interfaces"))
        ELSE IF intnum < 0
        THEN stay(Failure("Could not find rtl-sdr device"))
        ELSE IF ~check_rtl_bin(env.bin)
        THEN [at |-> "return", value |-> RetNone,
              mqtt_mode |-> FALSE, opts |-> new_opts]
        ELSE [at |-> "run_rtladsb",
              value |-> RetDict(Put(Describe("device_name", options, "rtlsdr_uuid"),
                                    "success", TRUE)),
              mqtt_mode |-> FALSE, opts |-> new_opts]

\* "rtladsb-0", "rtladsb-1", "rtladsb-mqtt", "rtladsb-SN7", "rtladsb-",
\* "rtl433-0", "rtl"
Sources ==
    { rtladsb_prefix \o << "0" >>, rtladsb_prefix \o << "1" >>,
      rtladsb_prefix \o mqtt_selector, rtladsb_prefix \o << "S", "N", "7" >>,
      rtladsb_prefix,
      << "r", "t", "l", "4", "3", "3", "-", "0" >>, << "r", "t", "l" >> }

\* The keys of the options of the source definition.
OptionKeys == {"mqtt", "uuid", "channel"}

\* What the call finds around it: the paho package, librtlsdr, the devices
\* plugged in (none, or one whose serial number is "SN7"), and what starting
\* rtl_adsb --help does.
Envs ==
    [has_mqtt : BOOLEAN, have_librtl : BOOLEAN, device_count : {0, 1},
     serial : { << "S", "N", "7" >> },
     bin : {"ok", "CalledProcessError", "OSError"}]

InitOpen ==
    /\ Idle
    /\ fn_arg \in [source : Sources, options : SUBSET OptionKeys, env : Envs]
    /\ fn_ret = << >>

\* datasource_opensource up to its return, or up to line 769 where it calls
\* run_rtladsb.  run_mqtt (lines 542-559) creates the client, connects,
\* subscribes and starts the client's thread; connect raises when the broker
\* cannot be reached, and the exception leaves datasource_opensource.
Open ==
    /\ fn_ret = << >>
    /\ ret = << >>
    /\ cpc = "idle"
    /\ calls = 0
    /\ LET r == datasource_opensource(fn_arg.source, fn_arg.options, fn_arg.env,
                                      mqtt_mode, opts)
       IN  /\ mqtt_mode' = r.mqtt_mode
           /\ opts' = r.opts
           /\ IF r.at = "return"
              THEN /\ fn_ret' = << r.value >>
                   /\ UNCHANGED << mq, ret, caller_vars >>
              ELSE IF r.at = "run_mqtt"
              THEN /\ \E connected \in BOOLEAN :
                          IF connected
                          THEN /\ mq' = 1
                               /\ fn_ret' = << r.value >>
                          ELSE /\ mq' = 0
                               /\ fn_ret' = << [kind |-> "raised", dict |-> EmptyDict] >>
                   /\ UNCHANGED << ret, caller_vars >>
              ELSE /\ ret' = << r.value >>
                   /\ calls' = calls + 1
                   /\ cpc' = "l525"
                   /\ call_result' = "running"
                   /\ UNCHANGED << mq, fn_ret >>
    /\ UNCHANGED fn_arg
    /\ UNCHANGED obj_vars
    /\ UNCHANGED procs
    /\ UNCHANGED thread_vars
    /\ UNCHANGED out_vars

\* Line 771: return ret, once run_rtladsb has returned.
OpenReturn ==
    /\ ret # << >>
    /\ fn_ret = << >>
    /\ cpc = "idle"
    /\ call_result = "returned"
    /\ fn_ret' = << ret[1] >>
    /\ UNCHANGED << fn_arg, mqtt_mode, opts, mq, ret >>
    /\ UNCHANGED obj_vars
    /\ UNCHANGED procs
    /\ UNCHANGED thread_vars
    /\ UNCHANGED caller_vars
    /\ UNCHANGED out_vars

\* A source is opened: datasource_opensource runs from its call to its return;
\* what the ingestion thread it starts does then is Spec's.
NextOpen ==
    \/ Open
    \/ Run525
    \/ Run535
    \/ OpenReturn

SpecOpen == InitOpen /\ [][NextOpen]_vars

\* ------------------------------------------------------------------------
\* Properties
\* ------------------------------------------------------------------------

\* The records handed to handle_json for line number n of thread th.
RecordsOf(th, n) ==
    {i \in 1..Len(records) : records[i].thread = th /\ records[i].n = n}

\* The error reports thread th sent.
ReportsOf(th) == SelectSeq(reports, LAMBDA r : r.thread = th)

DecodedKeys ==
    {"altitude", "callsign", "coordpair_even", "raw_lat", "raw_lon", "speed",
     "heading"}

\* The last line read went through the CRC check and passed it.
LastPassValid == nread > 0 /\ loc.stage = 3 /\ loc.msgcrc = loc.msgcrc2

ProcessExited == "rtl_adsb process exited"

\* C1: every line whose frame passes the CRC check, whatever its type, hands
\* exactly one record to handle_json; the record has the key icao, and for a
\* type without extractor rule none of the decoded field keys.
C1_OneRecordPerValidFrame ==
    LastPassValid =>
        /\ Cardinality(RecordsOf(rtl_thread, nread)) = 1
        /\ \A i \in RecordsOf(rtl_thread, nread) :
              /\ "icao" \in DOMAIN records[i].json
              /\ loc.msgtype \notin {0, 4, 16, 17, 20}
                    => DOMAIN records[i].json \cap DecodedKeys = {}

\* C2: a malformed line is skipped: reading it hands over no record, sends no
\* error report and leaves the thread in its loop, ready for the next line.
C2_MalformedLineSkipped ==
    [][(nread' = nread + 1 /\ loc'.line \in MalformedLines)
          => (pc' = "loop" /\ exc' = "none" /\ records' = records
              /\ reports' = reports)]_vars

\* C3: a frame goes on to field extraction (output gets its icao) iff
\* adsb_crc(frame, bits) = adsb_msg_get_crc(frame, bits) with
\* bits = adsb_len_by_type(type); a frame failing the check is dropped
\* silently: no record, no error report, seen_any_valid unchanged, and the
\* thread stays in its loop.
C3_CrcFilter ==
    [][(nread' = nread + 1 /\ loc'.stage = 3)
          => LET frame == loc'.msg
                 bits  == adsb_len_by_type(adsb_msg_get_type(frame))
                 same  == adsb_crc(frame, bits) = adsb_msg_get_crc(frame, bits)
             IN  /\ ("icao" \in DOMAIN loc'.output) <=> same
                 /\ ~same => /\ records' = records
                             /\ reports' = reports
                             /\ seen_any_valid' = seen_any_valid
                             /\ loc'.output = EmptyDict
                             /\ pc' = "loop"
                             /\ exc' = exc]_vars

\* C3 witness: a line with a wrong CRC has been read and the loop goes on.
C3_Witness ==
    /\ nread > 0
    /\ loc.line \in BadCrcLines
    /\ loc.stage = 3
    /\ loc.msgcrc # loc.msgcrc2
    /\ pc = "loop"
    /\ reports = << >>

\* C4: when the thread has seen the process end, an end caused by the
\* restart's kill has produced no error report and no spindown, and an end
\* the process came to on its own has been reported as an error, whatever
\* run_rtladsb did meanwhile.
C4_ExitCausesDistinguished ==
    (pc \in {"l521", "done"} /\ exc = ProcessExited) =>
        IF procs[rtl_exec] = "killed"
        THEN ReportsOf(rtl_thread) = << >> /\ ~spindown
        ELSE \E i \in 1..Len(reports) :
                reports[i] = [thread |-> rtl_thread, kind |-> "unable",
                              exc |-> ProcessExited]

\* C5 as stated: when the thread ends because the process exited, an error
\* report has been sent only if no valid frame was seen.
C5_ReportOnlyIfNoneSeen ==
    (exc = ProcessExited /\ seen_any_valid) => reports = << >>

\* C5 amended: when the thread ends because the process exited (no restart
\* under way), the "Unable to process output" report is sent in any case; the
\* "no valid devices were seen" report and kismet.spindown() follow only if no
\* valid frame was seen.
C5_NoValidReportOnlyIfNoneSeen ==
    (pc \in {"l521", "done"} /\ exc = ProcessExited) =>
        /\ ~rtl_reconfigure
        /\ seen_any_valid =>
              /\ reports = << [thread |-> rtl_thread, kind |-> "unable",
                               exc |-> ProcessExited] >>
              /\ ~spindown
        /\ ~seen_any_valid =>
              /\ reports = << [thread |-> rtl_thread, kind |-> "unable",
                               exc |-> ProcessExited],
                              [thread |-> rtl_thread, kind |-> "no_valid",
                               exc |-> ProcessExited] >>
              /\ spindown

\* C5 witness: a valid frame was emitted, then the process exited and the
\* thread has finished.
C5_Witness ==
    /\ pc = "done"
    /\ exc = ProcessExited
    /\ seen_any_valid
    /\ Len(records) > 0
    /\ Len(reports) = 1

\* The one line "*8D4840D6202CC371C32CE0576098;" has been fed.
KnownLineFed == nread = 1 /\ loc.line = KnownLine /\ rtl_thread = 1

Icao4840d6 == << "4", "8", "4", "0", "d", "6" >>

\* C6 as stated: the line yields exactly one record, of a type-17 frame whose
\* CRCs agree, with icao 4840d6 and raw_lat, raw_lon, coordpair_even and
\* altitude, the altitude being the 12-bit altitude of bytes 5-6.
C6_KnownLineIsPosition ==
    KnownLineFed =>
        /\ Len(records) = 1
        /\ loc.msgtype = 17
        /\ loc.msgcrc = loc.msgcrc2
        /\ records[1].json["icao"] = Icao4840d6
        /\ {"raw_lat", "raw_lon", "coordpair_even", "altitude"}
              \subseteq DOMAIN records[1].json
        /\ records[1].json["altitude"] = adsb_msg_get_ac12_altitude(loc.msg)

\* C6 amended: the line yields exactly one record, of a type-17 frame whose
\* CRCs agree, with icao 4840d6; byte 4 gives metype 4, mesub 0, so the record
\* has callsign "KLM1023" and none of raw_lat, raw_lon, coordpair_even,
\* altitude.
C6_KnownLineIsCallsign ==
    KnownLineFed =>
        /\ Len(records) = 1
        /\ loc.msgtype = 17
        /\ loc.msgcrc = loc.msgcrc2
        /\ loc.msgcrc = 5726360
        /\ adsb_msg_get_me_subme(loc.msg) = << 4, 0 >>
        /\ records[1].json["icao"] = Icao4840d6
        /\ "callsign" \in DOMAIN records[1].json
        /\ records[1].json["callsign"] = << "K", "L", "M", "1", "0", "2", "3" >>
        /\ {"raw_lat", "raw_lon", "coordpair_even", "altitude"}
              \cap DOMAIN records[1].json = {}

\* C6 witness: the line has been fed and its record handed over.
C6_Witness == KnownLineFed /\ Len(records) = 1 /\ seen_any_valid

\* C7: every CRC-valid frame of type 0, 4, 16 or 20 yields a record whose
\* altitude is adsb_msg_get_ac13_altitude(frame).
C7_Altitude13Emitted ==
    (LastPassValid /\ loc.msgtype \in {0, 4, 16, 20}) =>
        \E i \in RecordsOf(rtl_thread, nread) :
            /\ "altitude" \in DOMAIN records[i].json
            /\ records[i].json["altitude"] = adsb_msg_get_ac13_altitude(loc.msg)

\* The 13-bit altitude field: the low 5 bits of byte 2, then byte 3.
Ac13Field(data) == (At(data, 2) % 32) * 256 + At(data, 3)

\* The field without its M bit (bit 6) and Q bit (bit 4), the other 11 bits
\* kept in order.
Ac13N(data) ==
    LET f == Ac13Field(data)
    IN  (f \div 128) * 32 + ((f \div 32) % 2) * 16 + (f % 16)

\* C8: adsb_msg_get_ac13_altitude is 25 * n - 1000 when M is clear and Q is
\* set, n being the field without its M and Q bits, and 0 otherwise.
C8_Altitude13 ==
    fn_ret # << >> =>
        LET f == Ac13Field(fn_arg)
            m == (f \div 64) % 2
            q == (f \div 16) % 2
        IN  fn_ret[1] = IF m = 0 /\ q = 1 THEN 25 * Ac13N(fn_arg) - 1000 ELSE 0

\* Bit i of a frame, bit 0 being the top bit of byte 0.
BitOf(data, i) == (At(data, i \div 8) \div (2 ^ (7 - (i % 8)))) % 2

\* The k-th (1..8) 6-bit code of bytes 5..10.
FlightCode(data, k) ==
    LET b == 40 + 6 * (k - 1)
    IN  32 * BitOf(data, b) + 16 * BitOf(data, b + 1) + 8 * BitOf(data, b + 2)
        + 4 * BitOf(data, b + 3) + 2 * BitOf(data, b + 4) + BitOf(data, b + 5)

FlightText(data) == [k \in 1..8 |-> At(ais_charset, FlightCode(data, k))]

NonSpace(s) == {k \in 1..Len(s) : s[k] # " "}

FirstOf(S) == CHOOSE k \in S : \A j \in S : k <= j

LastOf(S) == CHOOSE k \in S : \A j \in S : j <= k

\* C9 as stated: adsb_msg_get_flight is the eight characters with the trailing
\* spaces removed and nothing else changed.
C9_FlightRightTrimmed ==
    fn_ret # << >> =>
        LET s == FlightText(fn_arg)
        IN  fn_ret[1] = IF NonSpace(s) = {} THEN << >>
                        ELSE SubSeq(s, 1, LastOf(NonSpace(s)))

\* C9 amended: adsb_msg_get_flight is the eight characters with the leading
\* and the trailing spaces removed; interior spaces are kept.
C9_FlightTrimmed ==
    fn_ret # << >> =>
        LET s == FlightText(fn_arg)
        IN  fn_ret[1] = IF NonSpace(s) = {} THEN << >>
                        ELSE SubSeq(s, FirstOf(NonSpace(s)), LastOf(NonSpace(s)))

\* C9 witness: the field "ABC" followed by five spaces has been decoded, to
\* "ABC".
C9_Witness ==
    /\ fn_ret # << >>
    /\ FlightText(fn_arg) = << "A", "B", "C", " ", " ", " ", " ", " " >>
    /\ fn_ret[1] = << "A", "B", "C" >>

\* C10: in every record of a type-17 frame, callsign is present iff metype is
\* in 1..4; coordpair_even, raw_lat, raw_lon and altitude are present iff
\* metype = 19 and mesub is in 1..4; speed and heading are present iff
\* metype = 19 and mesub is 1 or 2.
C10_Type17Keys ==
    \A i \in 1..Len(records) :
        LET frame  == records[i].msg
            keys   == DOMAIN records[i].json
            metype == At(frame, 4) \div 8
            mesub  == At(frame, 4) % 8
        IN  At(frame, 0) \div 8 = 17 =>
              /\ "callsign" \in keys <=> metype \in 1..4
              /\ \A k \in {"coordpair_even", "raw_lat", "raw_lon", "altitude"} :
                    k \in keys <=> (metype = 19 /\ mesub \in 1..4)
              /\ \A k \in {"speed", "heading"} :
                    k \in keys <=> (metype = 19 /\ mesub \in {1, 2})

\* C10 witness: a record with a callsign and a record with speed and heading
\* have both been emitted.
C10_Witness ==
    /\ Len(records) = 2
    /\ "callsign" \in DOMAIN records[1].json
    /\ "speed" \in DOMAIN records[2].json
    /\ "raw_lat" \in DOMAIN records[2].json

\* C11: records are handed to handle_json in the arrival order of their lines,
\* and a line is fully processed before the next one is read: whenever the
\* records change, exactly one line was read in that step, the record of that
\* line (its number, its frame) was put after all records handed over before,
\* and those are unchanged; a record never appears in a later step than the
\* read of its line.
C11_ArrivalOrder ==
    [][ /\ records' # records =>
              /\ nread' = nread + 1
              /\ Len(records') = Len(records) + 1
              /\ SubSeq(records', 1, Len(records)) = records
              /\ records'[Len(records')].thread = rtl_thread
              /\ records'[Len(records')].n = nread'
              /\ records'[Len(records')].msg = loc'.msg
        /\ \A i \in 1..Len(records') : \A j \in 1..Len(records') :
              (i < j /\ records'[i].thread = records'[j].thread)
                  => records'[i].n < records'[j].n ]_vars

\* C11 witness: two lines of one loop have each yielded a record, the first
\* line's record first.
C11_Witness ==
    /\ nread = 2
    /\ Len(records) = 2
    /\ records[1].thread = records[2].thread
    /\ records[1].n = 1
    /\ records[2].n = 2
    /\ records[2].msg = loc.msg

\* The frame whose hex digits are fed both with and without the sentinels.
BareFrame == Df17(153)

\* Its hex digits.
BareDigits == hex(BareFrame)

\* The type-17 frames fed in, and the lines rtl_adsb prints for them.
Df17Frames == [me \in MeBytes |-> Df17(me)]

Df17Lines == [me \in MeBytes |-> Line(Df17Frames[me])]

\* The last line read is the frame's hex digits alone.
BareLineFed == nread > 0 /\ loc.line = BareDigits \o << "\n" >>

\* The last line read is the frame's hex digits between '*' and ';'.
BracketedLineFed == nread > 0 /\ loc.line = Df17Lines[153]

Running == {p \in 1..Len(procs) : procs[p] = "running"}

\* C13: a call of run_rtladsb made while a previous ingestion thread exists
\* (every call after the first) comes to its end by returning, and from then on
\* rtl_reconfigure is False again, the previous thread has given way to one new
\* thread, and the previous thread's decoder process runs no more: the only
\* process that can be running is the one the new thread has started.
C13_RestartCompletes ==
    (calls >= 2 /\ cpc = "idle") =>
        /\ call_result = "returned"
        /\ ~rtl_reconfigure
        /\ rtl_thread = calls
        /\ Cardinality(Running) <= 1
        /\ pc = "l441" => Running = {}

\* p * x modulo the Mode S generator polynomial 0x1FFF409 over GF(2), for a
\* remainder p given as the 24-bit pattern of its coefficients.
MulX(p) ==
    IF p >= 8388608 THEN BitXor(p * 2, 33551369) ELSE p * 2

\* Table entry k is x^(111-k) mod G for k in 0..87 and zero for k in 88..111:
\* x^23 is its own remainder, entry 87 is x^23 * x, and every entry before is
\* the entry after it times x.
TableIsRemainders ==
    /\ Len(modes_checksum_table) = 112
    /\ At(modes_checksum_table, 87) = MulX(8388608)
    /\ \A k \in 0..86 :
          At(modes_checksum_table, k) = MulX(At(modes_checksum_table, k + 1))
    /\ \A k \in 88..111 : At(modes_checksum_table, k) = 0

\* C14: for frames of 56 and 112 bits, adsb_crc(data, bits) is the CRC-24
\* remainder, under the generator 0x1FFF409, of the frame's first bits-24 bits:
\* the table holds x^(111-k) mod G at k in 0..87 and zero at 88..111, the index
\* j + offset stays in 0..111, and the result is a 24-bit value that is the
\* same whatever the last three bytes are.
C14_CrcIsRemainder ==
    /\ TableIsRemainders
    /\ \A bits \in {56, 112} : \A j \in 0..(bits - 1) :
          j + crc_offset(bits) \in 0..111
    /\ fn_ret # << >> =>
          LET bits    == 8 * Len(fn_arg)
              payload == SubSeq(fn_arg, 1, Len(fn_arg) - 3)
          IN  /\ bits \in {56, 112}
              /\ fn_ret[1] \in 0..16777215
              /\ fn_ret[1] = ModeSParity(payload)
              /\ fn_ret[1] = adsb_crc(payload \o << 0, 0, 0 >>, bits)

\* C14 witness: adsb_crc has been applied to a 56-bit frame with a checksum
\* field of all ones and gave a non-zero remainder.
C14_Witness ==
    /\ fn_ret # << >>
    /\ Len(fn_arg) = 7
    /\ SubSeq(fn_arg, 5, 7) = << 255, 255, 255 >>
    /\ fn_ret[1] # 0

\* The source cannot be opened: the name does not start with "rtladsb-"; MQTT
\* is asked for without the mqtt option or without the paho package; librtlsdr
\* is missing; the selector is neither the index nor the serial number of a
\* device plugged in; the rtl_adsb binary cannot be started.
CannotOpen(arg) ==
    LET selector == slice_from(arg.source, 8)
        is_mqtt  == selector = mqtt_selector
        is_index == \E i \in 0..(arg.env.device_count - 1) :
                        selector = << HexLower[i + 1] >>
        is_serial == arg.env.device_count > 0 /\ selector = arg.env.serial
    IN  \/ slice_to(arg.source, 8) # rtladsb_prefix
        \/ is_mqtt /\ ("mqtt" \notin arg.options \/ ~arg.env.has_mqtt)
        \/ /\ ~is_mqtt
           /\ \/ ~arg.env.have_librtl
              \/ ~is_index /\ ~is_serial
              \/ arg.env.bin = "OSError"

\* C15: every call of datasource_opensource that returns, returns a dictionary
\* with a boolean 'success'; when the source cannot be opened, success is
\* False, a 'message' is there, and neither an ingestion thread nor an MQTT
\* client has been started.
C15_OpenReturnsResult ==
    (fn_ret # << >> /\ fn_ret[1].kind # "raised") =>
        /\ fn_ret[1].kind = "dict"
        /\ "success" \in DOMAIN fn_ret[1].dict
        /\ fn_ret[1].dict["success"] \in BOOLEAN
        /\ CannotOpen(fn_arg) =>
              /\ fn_ret[1].dict["success"] = FALSE
              /\ "message" \in DOMAIN fn_ret[1].dict
              /\ rtl_thread = 0
              /\ pc = "none"
              /\ mq = 0

====
